---- MODULE Spec2Model ----
(***************************************************************************)
(* cpuprofiler: the PROFILER singleton (a Mutex<Profiler>), the two-state  *)
(* lifecycle of Profiler::start / Profiler::stop, the pre-flight checks    *)
(* of start, and the two native entry points ProfilerStart / ProfilerStop. *)
(*                                                                         *)
(* Callers are threads of the embedding program.  A caller asks for the    *)
(* lock, holds the guard, calls start / stop / state on it any number of   *)
(* times and drops the guard.  start is two steps, because the file system *)
(* belongs to the environment and may change between the metadata lookup   *)
(* and the native call; every other call is one step.                      *)
(***************************************************************************)
EXTENDS Integers, Sequences, FiniteSets, TLC

\* ------------------------------------------------------------------ bounds

NumCallers == 2
MaxLen == 1

Callers == 1..NumCallers

\* NUL, 'a', and the two bytes of U+00E9 (a lead byte and a continuation byte).
Bytes == {0, 97, 195, 169}

\* The filename argument after Into<Vec<u8>>: any byte string.
Fnames == UNION {[1..n -> Bytes] : n \in 0..MaxLen}

\* The paths that can name something in the file system; every other path
\* names nothing.
FsPaths == {<<97>>}

\* What a path names: nothing, something in a directory that may not be
\* searched, a directory, a special file (a device, a socket), a regular file
\* without write bits, a regular file with write bits.
FsKinds == {"missing", "noaccess", "dir", "special", "file_ro", "file_rw"}

\* The i32 statuses ProfilerStart may return.
NativeStatuses == {-1, 0, 1}

\* ------------------------------------------------------------------ values

States == {"Active", "NotActive"}

Ok == [tag |-> "Ok", arg |-> ""]
InvalidState(s) == [tag |-> "InvalidState", arg |-> s]
Nul == [tag |-> "Nul", arg |-> ""]
Utf8 == [tag |-> "Utf8", arg |-> ""]
Io(kind) == [tag |-> "Io", arg |-> kind]
InternalError == [tag |-> "InternalError", arg |-> ""]
StateValue(s) == [tag |-> "State", arg |-> s]
\* not a return value: start goes on to the native call
Proceed == [tag |-> "Proceed", arg |-> ""]
\* not a return value: no call has been made yet
NoRet == [tag |-> "None", arg |-> ""]

\* ------------------------------------------------------------------ pure parts

\* impl fmt::Display for ProfilerState
DisplayState(s) ==
    CASE s = "Active" -> "Active"
      [] s = "NotActive" -> "NotActive"

\* an InvalidState message that leaves the state out
DisplayErrorNoState(e) ==
    CASE e.tag = "InternalError" -> "Internal library error!"
      [] e.tag = "InvalidState" -> "Operation is invalid for profiler state"

\* The display text of the two kinds of the errors block of error_chain!.
DisplayError(e) ==
    CASE e.tag = "InternalError" -> "Internal library error!"
      [] e.tag = "InvalidState" ->
             "Operation is invalid for profiler state: " \o DisplayState(e.arg)

\* CString::new fails on a byte string with a 0 byte in it.
HasNul(fname) == \E i \in 1..Len(fname) : fname[i] = 0

IsCont(b) == b >= 128 /\ b <= 191

\* The second byte of a multi-byte sequence, by its lead byte.
SecondOk(lead, b) ==
    CASE lead = 224 -> b >= 160 /\ b <= 191
      [] lead = 237 -> b >= 128 /\ b <= 159
      [] lead = 240 -> b >= 144 /\ b <= 191
      [] lead = 244 -> b >= 128 /\ b <= 143
      [] OTHER -> IsCont(b)

Utf8CharWidth(b) ==
    IF b < 128 THEN 1
    ELSE IF b >= 194 /\ b <= 223 THEN 2
    ELSE IF b >= 224 /\ b <= 239 THEN 3
    ELSE IF b >= 240 /\ b <= 244 THEN 4
    ELSE 0

RECURSIVE Utf8From(_, _)
Utf8From(b, i) ==
    IF i > Len(b) THEN TRUE
    ELSE LET w == Utf8CharWidth(b[i]) IN
         /\ w > 0
         /\ i + w - 1 <= Len(b)
         /\ w >= 2 => SecondOk(b[i], b[i + 1])
         /\ \A k \in 2..(w - 1) : IsCont(b[i + k])
         /\ Utf8From(b, i + w)

\* CStr::to_str succeeds on valid UTF-8 only.
IsUtf8(b) == Utf8From(b, 1)

\* What fs::metadata sees at a path.
Lookup(filesys, path) == IF path \in DOMAIN filesys THEN filesys[path] ELSE "missing"

\* Lines 136-142 of Profiler::start: the checks on the encoded filename.
\* filesys is the file system at the time of the lookup.  ret is the error
\* returned, or Proceed; trace lists the operations performed, in order;
\* found is what fs::metadata met at the path ("none" when it was not called).
PathChecks(c_fname, filesys) ==
    IF ~IsUtf8(c_fname)
    THEN [ret |-> Utf8, trace |-> <<"CString::new", "to_str">>, found |-> "none"]
    ELSE LET found == Lookup(filesys, c_fname)
             tr == <<"CString::new", "to_str", "fs::metadata">>
         IN  IF found = "missing"
             THEN [ret |-> Io("NotFound"), trace |-> tr, found |-> found]
             ELSE IF found = "noaccess"
             THEN [ret |-> Io("PermissionDenied"), trace |-> tr, found |-> found]
             ELSE IF found # "file_ro" /\ found # "file_rw"
             THEN [ret |-> Io("NotFound"), trace |-> tr, found |-> found]
             ELSE IF found = "file_ro"
             THEN [ret |-> Io("PermissionDenied"), trace |-> tr, found |-> found]
             ELSE [ret |-> Proceed, trace |-> tr, found |-> found]

\* start without the check of self.state
StartChecksNoStateCheck(st, fname, filesys) ==
    IF HasNul(fname)
    THEN [ret |-> Nul, trace |-> <<"CString::new">>, found |-> "none"]
    ELSE PathChecks(fname, filesys)

\* start encoding the filename before it looks at self.state
StartChecksEncodeFirst(st, fname, filesys) ==
    IF HasNul(fname)
    THEN [ret |-> Nul, trace |-> <<"CString::new">>, found |-> "none"]
    ELSE IF st # "NotActive"
    THEN [ret |-> InvalidState(st), trace |-> <<"CString::new">>, found |-> "none"]
    ELSE PathChecks(fname, filesys)

\* start without the read-only check
StartChecksNoReadonly(st, fname, filesys) ==
    IF st # "NotActive"
    THEN [ret |-> InvalidState(st), trace |-> <<>>, found |-> "none"]
    ELSE IF HasNul(fname)
    THEN [ret |-> Nul, trace |-> <<"CString::new">>, found |-> "none"]
    ELSE LET r == PathChecks(fname, filesys) IN
         IF r.found = "file_ro" THEN [r EXCEPT !.ret = Proceed] ELSE r

\* start reporting a path that is no regular file as permission-denied
StartChecksNotFileDenied(st, fname, filesys) ==
    IF st # "NotActive"
    THEN [ret |-> InvalidState(st), trace |-> <<>>, found |-> "none"]
    ELSE IF HasNul(fname)
    THEN [ret |-> Nul, trace |-> <<"CString::new">>, found |-> "none"]
    ELSE LET r == PathChecks(fname, filesys) IN
         IF r.found \in {"dir", "special"}
         THEN [r EXCEPT !.ret = Io("PermissionDenied")]
         ELSE r

\* Lines 133-142 and 153-155 of Profiler::start: everything before the
\* native call.  st is self.state.
StartChecks(st, fname, filesys) ==
    IF st # "NotActive"
    THEN [ret |-> InvalidState(st), trace |-> <<>>, found |-> "none"]
    ELSE IF HasNul(fname)
    THEN [ret |-> Nul, trace |-> <<"CString::new">>, found |-> "none"]
    ELSE PathChecks(fname, filesys)

\* start becoming Active whatever the native status
StartOutcomeAlwaysActive(st, res) ==
    IF res = 0
    THEN [ret |-> InternalError, st |-> "Active"]
    ELSE [ret |-> Ok, st |-> "Active"]

\* start taking only a positive status for success
StartOutcomePositiveOnly(st, res) ==
    IF res <= 0
    THEN [ret |-> InternalError, st |-> st]
    ELSE [ret |-> Ok, st |-> "Active"]

\* Lines 145-150 of Profiler::start: what start makes of the native status.
\* ret is the value returned, st the new self.state.
StartOutcome(st, res) ==
    IF res = 0
    THEN [ret |-> InternalError, st |-> st]
    ELSE [ret |-> Ok, st |-> "Active"]

\* stop without the check of self.state
StopOutcomeUnguarded(st) ==
    [ret |-> Ok, st |-> "NotActive", native |-> TRUE]

\* stop calling ProfilerStop in either state
StopOutcomeAlwaysNative(st) ==
    IF st = "Active"
    THEN [ret |-> Ok, st |-> "NotActive", native |-> TRUE]
    ELSE [ret |-> InvalidState(st), st |-> st, native |-> TRUE]

\* stop leaving self.state as it was
StopOutcomeKeepsState(st) ==
    IF st = "Active"
    THEN [ret |-> Ok, st |-> st, native |-> TRUE]
    ELSE [ret |-> InvalidState(st), st |-> st, native |-> FALSE]

\* stop forgetting to call ProfilerStop
StopOutcomeSkipsNative(st) ==
    IF st = "Active"
    THEN [ret |-> Ok, st |-> "NotActive", native |-> FALSE]
    ELSE [ret |-> InvalidState(st), st |-> st, native |-> FALSE]

\* Lines 167-175 of Profiler::stop.  native tells whether ProfilerStop is
\* called.
StopOutcome(st) ==
    IF st = "Active"
    THEN [ret |-> Ok, st |-> "NotActive", native |-> TRUE]
    ELSE [ret |-> InvalidState(st), st |-> st, native |-> FALSE]

\* ------------------------------------------------------------------ state

VARIABLES
    state,       \* PROFILER's Profiler.state
    lock,        \* the caller holding PROFILER's guard, 0 when free
    pc,          \* each caller's position
    call,        \* the call in progress, or else the latest call made
    fs,          \* the file system: what each path of FsPaths names
    native,      \* the native facility: is a profiling session active
    nativeHist,  \* the last two invocations of native entry points
    starters,    \* the callers whose start succeeded since the last successful stop
    ended        \* who started and who stopped the session that ended last,
                 \* while no start has succeeded since

vars == <<state, lock, pc, call, fs, native, nativeHist, starters, ended>>

NoCall ==
    [caller |-> 0, op |-> "none", fname |-> <<>>, pre |-> "NotActive",
     found |-> "none", res |-> <<>>, trace |-> <<>>, ret |-> NoRet]

\* The record of a call: who, which operation, its argument, self.state on
\* entry, what the metadata lookup met, the native status (a sequence of
\* length 0 or 1), the operations performed and the value returned (Proceed
\* while start is about to call ProfilerStart).
Call(c, op, fname, pre, found, res, trace, ret) ==
    [caller |-> c, op |-> op, fname |-> fname, pre |-> pre,
     found |-> found, res |-> res, trace |-> trace, ret |-> ret]

\* No session has ended since the last successful start.
NoneEnded == [started |-> {}, stopper |-> 0]

\* A native entry point was invoked: keep the last two.
Logged(hist, event) == <<hist[2], event>>

\* a singleton constructed Active
InitActive ==
    /\ state = "Active"
    /\ lock = 0
    /\ pc = [c \in Callers |-> "idle"]
    /\ call = NoCall
    /\ fs \in [FsPaths -> FsKinds]
    /\ native = FALSE
    /\ nativeHist = <<"none", "none">>
    /\ starters = {}
    /\ ended = NoneEnded

Init ==
    /\ state = "NotActive"
    /\ lock = 0
    /\ pc = [c \in Callers |-> "idle"]
    /\ call = NoCall
    /\ fs \in [FsPaths -> FsKinds]
    /\ native = FALSE
    /\ nativeHist = <<"none", "none">>
    /\ starters = {}
    /\ ended = NoneEnded

\* ------------------------------------------------------------------ actions

\* PROFILER.lock() is called: the caller blocks until the lock is free.
Request(c) ==
    /\ pc[c] = "idle"
    /\ pc' = [pc EXCEPT ![c] = "waiting"]
    /\ UNCHANGED <<state, lock, call, fs, native, nativeHist, starters, ended>>

\* a lock that hands out its guard while another caller holds one
AcquireUnguarded(c) ==
    /\ pc[c] = "waiting"
    /\ lock' = c
    /\ pc' = [pc EXCEPT ![c] = "held"]
    /\ UNCHANGED <<state, call, fs, native, nativeHist, starters, ended>>

\* PROFILER.lock() returns the guard.
Acquire(c) ==
    /\ pc[c] = "waiting"
    /\ lock = 0
    /\ lock' = c
    /\ pc' = [pc EXCEPT ![c] = "held"]
    /\ UNCHANGED <<state, call, fs, native, nativeHist, starters, ended>>

\* guard.start(fname), up to the native call.
StartEnter(c, fname) ==
    /\ pc[c] = "held"
    /\ LET r == StartChecks(state, fname, fs) IN
       /\ call' = Call(c, "start", fname, state, r.found, <<>>, r.trace, r.ret)
       /\ pc' = [pc EXCEPT ![c] = IF r.ret = Proceed THEN "native" ELSE "held"]
    /\ UNCHANGED <<state, lock, fs, native, nativeHist, starters, ended>>

\* guard.start(fname), the native call and the return: ProfilerStart
\* answers res, and a nonzero res means a session is now active.
StartNative(c, res) ==
    /\ pc[c] = "native"
    /\ LET o == StartOutcome(state, res) IN
       /\ state' = o.st
       /\ call' = [call EXCEPT !.res = <<res>>,
                               !.trace = Append(call.trace, "ProfilerStart"),
                               !.ret = o.ret]
       /\ starters' = IF o.ret = Ok THEN starters \cup {c} ELSE starters
       /\ ended' = IF o.ret = Ok THEN NoneEnded ELSE ended
    /\ native' = IF res # 0 THEN TRUE ELSE native
    /\ nativeHist' = Logged(nativeHist, IF res # 0 THEN "start_ok" ELSE "start_failed")
    /\ pc' = [pc EXCEPT ![c] = "held"]
    /\ UNCHANGED <<lock, fs>>

\* a stop that only the caller who started the session may make
StopOwnerOnly(c) ==
    /\ pc[c] = "held"
    /\ LET o == IF c \in starters
                THEN StopOutcome(state)
                ELSE [ret |-> InvalidState(state), st |-> state, native |-> FALSE]
       IN
       /\ state' = o.st
       /\ call' = Call(c, "stop", <<>>, state, "none", <<>>,
                       IF o.native THEN <<"ProfilerStop">> ELSE <<>>, o.ret)
       /\ native' = IF o.native THEN FALSE ELSE native
       /\ nativeHist' = IF o.native THEN Logged(nativeHist, "stop") ELSE nativeHist
       /\ starters' = IF o.ret = Ok THEN {} ELSE starters
       /\ ended' = IF o.ret = Ok THEN [started |-> starters, stopper |-> c] ELSE ended
    /\ UNCHANGED <<lock, pc, fs>>

\* guard.stop()
Stop(c) ==
    /\ pc[c] = "held"
    /\ LET o == StopOutcome(state) IN
       /\ state' = o.st
       /\ call' = Call(c, "stop", <<>>, state, "none", <<>>,
                       IF o.native THEN <<"ProfilerStop">> ELSE <<>>, o.ret)
       /\ native' = IF o.native THEN FALSE ELSE native
       /\ nativeHist' = IF o.native THEN Logged(nativeHist, "stop") ELSE nativeHist
       /\ starters' = IF o.ret = Ok THEN {} ELSE starters
       /\ ended' = IF o.ret = Ok THEN [started |-> starters, stopper |-> c] ELSE ended
    /\ UNCHANGED <<lock, pc, fs>>

\* state() answering NotActive whatever self.state is
StateReportsNotActive(c) ==
    /\ pc[c] = "held"
    /\ call' = Call(c, "state", <<>>, state, "none", <<>>, <<>>, StateValue("NotActive"))
    /\ UNCHANGED <<state, lock, pc, fs, native, nativeHist, starters, ended>>

\* guard.state()
State(c) ==
    /\ pc[c] = "held"
    /\ call' = Call(c, "state", <<>>, state, "none", <<>>, <<>>, StateValue(state))
    /\ UNCHANGED <<state, lock, pc, fs, native, nativeHist, starters, ended>>

\* a guard that is forgotten instead of dropped: the lock stays taken
UnlockLeaksGuard(c) ==
    /\ pc[c] = "held"
    /\ pc' = [pc EXCEPT ![c] = "idle"]
    /\ UNCHANGED <<state, lock, call, fs, native, nativeHist, starters, ended>>

\* The guard goes out of scope.
Unlock(c) ==
    /\ pc[c] = "held"
    /\ lock' = 0
    /\ pc' = [pc EXCEPT ![c] = "idle"]
    /\ UNCHANGED <<state, call, fs, native, nativeHist, starters, ended>>

\* The environment changes what a path names.
FsChange(p, k) ==
    /\ fs[p] # k
    /\ fs' = [fs EXCEPT ![p] = k]
    /\ UNCHANGED <<state, lock, pc, call, native, nativeHist, starters, ended>>

Next ==
    \/ \E c \in Callers : Request(c)
    \/ \E c \in Callers : Acquire(c)
    \/ \E c \in Callers, fname \in Fnames : StartEnter(c, fname)
    \/ \E c \in Callers, res \in NativeStatuses : StartNative(c, res)
    \/ \E c \in Callers : Stop(c)
    \/ \E c \in Callers : State(c)
    \/ \E c \in Callers : Unlock(c)
    \/ \E p \in FsPaths, k \in FsKinds : FsChange(p, k)

Spec == Init /\ [][Next]_vars

\* Fair scheduling: the native call returns; a caller whose guard can go out
\* of scope again and again lets it go; a caller for whom the lock is free
\* again and again gets it.
Fairness ==
    \A c \in Callers :
        /\ WF_vars(\E res \in NativeStatuses : StartNative(c, res))
        /\ SF_vars(Unlock(c))
        /\ SF_vars(Acquire(c))

LiveSpec == Init /\ [][Next]_vars /\ Fairness

TypeOK ==
    /\ state \in States
    /\ lock \in 0..NumCallers
    /\ pc \in [Callers -> {"idle", "waiting", "held", "native"}]
    /\ fs \in [FsPaths -> FsKinds]
    /\ native \in BOOLEAN
    /\ starters \subseteq Callers

\* ------------------------------------------------------------------ claims

\* The operations of a start call that went as far as the native call.
FullTrace == <<"CString::new", "to_str", "fs::metadata", "ProfilerStart">>

\* The latest call was a start that has returned.
StartReturned == call.op = "start" /\ call.ret # Proceed

\* The latest call was a start whose filename passed every check when it
\* was made, and whose native call reported success.
ValidStart ==
    /\ StartReturned
    /\ ~HasNul(call.fname)
    /\ IsUtf8(call.fname)
    /\ call.found = "file_rw"
    /\ Len(call.res) = 1
    /\ call.res[1] # 0

\* C1: among the callers that invoke start with no stop in between, exactly
\* one succeeds and moves the state from NotActive to Active: at most one
\* caller has succeeded since the last successful stop, the state is Active
\* exactly when one has, a start that finds the state Active returns
\* InvalidState(Active), and a start that returns success found the state
\* NotActive and makes its caller the only one that succeeded.
C1_OneStartWins ==
    /\ Cardinality(starters) <= 1
    /\ (state = "Active") <=> (starters # {})
    /\ (StartReturned /\ call.pre = "Active") => call.ret = InvalidState("Active")
    /\ (StartReturned /\ call.ret = Ok) =>
           /\ call.pre = "NotActive"
           /\ state = "Active"
           /\ starters = {call.caller}
    /\ (ValidStart /\ call.pre = "NotActive") => call.ret = Ok
    /\ \A c, d \in Callers : (pc[c] \in {"held", "native"} /\ pc[d] \in {"held", "native"}) => c = d

\* C1 witness: no stop has ever been issued, one caller's start has succeeded
\* and another caller, holding the lock the first now waits for, has had a
\* start with a path that passes validation rejected.
C1_Witness ==
    /\ nativeHist = <<"none", "start_ok">>
    /\ StartReturned
    /\ call.ret = InvalidState("Active")
    /\ ~HasNul(call.fname) /\ IsUtf8(call.fname)
    /\ Lookup(fs, call.fname) = "file_rw"
    /\ \E c \in Callers : starters = {c} /\ c # call.caller /\ pc[c] = "waiting"
    /\ pc[call.caller] = "held"

IsNativeStart(event) == event \in {"start_ok", "start_failed"}

\* C2 as stated: ProfilerStart is never invoked twice without an invocation
\* of ProfilerStop in between.
C2_Original == ~(IsNativeStart(nativeHist[1]) /\ IsNativeStart(nativeHist[2]))

\* C2 amended: ProfilerStart is never invoked after an invocation of
\* ProfilerStart that reported success without an invocation of ProfilerStop
\* in between, and so never while a native session is active.
C2_NoStartWhileActive == IsNativeStart(nativeHist[2]) => nativeHist[1] # "start_ok"

\* C2 witness: ProfilerStart was invoked twice in a row, the first invocation
\* having reported failure.
C2_Witness == nativeHist = <<"start_failed", "start_ok">>

\* C3: ProfilerStop is invoked only while a native session is active: the
\* native invocation before each ProfilerStop is a ProfilerStart that
\* reported success, and the state is Active only while a native session is.
C3_StopOnlyWhenActive ==
    /\ nativeHist[2] = "stop" => nativeHist[1] = "start_ok"
    /\ state = "Active" => native
    /\ (call.op = "stop" /\ call.trace = <<"ProfilerStop">>) => call.pre = "Active"

\* C3 witness: ProfilerStop has been invoked, after a successful ProfilerStart.
C3_Witness ==
    /\ nativeHist = <<"start_ok", "stop">>
    /\ call.op = "stop"
    /\ call.trace = <<"ProfilerStop">>
    /\ ~native

\* The latest start call met a filename that encodes, is valid UTF-8 and
\* named a regular file that is not read-only when start looked it up.
PassedChecks ==
    /\ ~HasNul(call.fname)
    /\ IsUtf8(call.fname)
    /\ call.found = "file_rw"

\* C4: a start from NotActive whose path passes all validation goes on to the
\* native call and, when that reports success, returns success and leaves the
\* state Active; a stop from Active returns success and leaves the state
\* NotActive with no caller's session left, wherever in a run they happen.
C4_RoundTrip ==
    /\ (call.op = "start" /\ call.pre = "NotActive" /\ PassedChecks) =>
           \/ call.ret = Proceed
           \/ Len(call.res) = 1 /\ call.ret \in {Ok, InternalError}
    /\ (ValidStart /\ call.pre = "NotActive") => (call.ret = Ok /\ state = "Active")
    /\ (call.op = "stop" /\ call.pre = "Active") =>
           (call.ret = Ok /\ state = "NotActive" /\ starters = {})

\* C4 witness: after a round trip that ended with a stop, a start with a
\* valid path has succeeded again.
C4_Witness ==
    /\ nativeHist = <<"stop", "start_ok">>
    /\ ValidStart
    /\ call.ret = Ok
    /\ state = "Active"

\* C5: a start that finds the state Active returns InvalidState(Active),
\* whatever the filename, leaves the state Active and performs no operation:
\* no encoding, no UTF-8 check, no metadata lookup, no native call.
C5_StartWhileActive ==
    (call.op = "start" /\ call.pre = "Active") =>
        /\ call.ret = InvalidState("Active")
        /\ state = "Active"
        /\ call.trace = <<>>
        /\ call.found = "none"
        /\ call.res = <<>>

\* C5 witness: start was called while Active with a filename that holds a
\* null byte.
C5_Witness ==
    /\ call.op = "start"
    /\ call.pre = "Active"
    /\ HasNul(call.fname)
    /\ call.ret = InvalidState("Active")

\* C6: a stop that finds the state NotActive returns InvalidState(NotActive),
\* leaves the state NotActive and does not invoke ProfilerStop.
C6_StopWhileNotActive ==
    (call.op = "stop" /\ call.pre = "NotActive") =>
        /\ call.ret = InvalidState("NotActive")
        /\ state = "NotActive"
        /\ call.trace = <<>>

\* C6 witness: stop was called while NotActive, before any native call.
C6_Witness ==
    /\ call.op = "stop"
    /\ call.pre = "NotActive"
    /\ call.ret = InvalidState("NotActive")
    /\ nativeHist = <<"none", "none">>

\* C7: a step of a start call that does not return success leaves the state
\* as it was, and the state becomes Active only in a step in which a start
\* call returns success.
C7_ErrorsKeepState ==
    [][ /\ (call'.op = "start" /\ call'.ret # Ok) => state' = state
        /\ (state' # state /\ state' = "Active") =>
               (call'.op = "start" /\ call'.ret = Ok /\ call.ret = Proceed)
      ]_vars

\* C7 witness: a start has returned InternalError and the state is NotActive.
C7_Witness ==
    /\ StartReturned
    /\ call.ret = InternalError
    /\ state = "NotActive"

\* C8: a start that returns Nul, Utf8 or Io has made no native call; a start
\* is about to invoke, or has invoked, ProfilerStart only after finding the
\* state NotActive and after the encoding, the UTF-8 check, the lookup, the
\* regular-file check and the read-only check, in this order, have passed; and
\* the only error it returns after invoking ProfilerStart is InternalError.
C8_ChecksBeforeNative ==
    /\ (call.op = "start" /\ call.ret.tag \in {"Nul", "Utf8", "Io", "InvalidState"}) =>
           /\ call.res = <<>>
           /\ \A i \in 1..Len(call.trace) : call.trace[i] # "ProfilerStart"
    /\ (call.op = "start" /\ (call.ret = Proceed \/ Len(call.res) = 1)) =>
           /\ call.pre = "NotActive"
           /\ PassedChecks
    /\ (call.op = "start" /\ call.ret = Proceed) =>
           call.trace = <<"CString::new", "to_str", "fs::metadata">>
    /\ (call.op = "start" /\ Len(call.res) = 1) =>
           /\ call.trace = FullTrace
           /\ call.ret \in {Ok, InternalError}

\* C8 witness: a start went through every check, invoked ProfilerStart and
\* returned InternalError.
C8_Witness ==
    /\ call.op = "start"
    /\ call.trace = FullTrace
    /\ call.res = <<0>>
    /\ call.ret = InternalError

\* C9: once start has invoked ProfilerStart the status alone decides: zero
\* gives InternalError with the state NotActive, any other status (a negative
\* one too) gives success with the state Active; and as long as the last
\* native invocation is a failed ProfilerStart the state is NotActive and no
\* start returns InvalidState.
C9_StatusDecides ==
    /\ (call.op = "start" /\ Len(call.res) = 1) =>
           IF call.res[1] = 0
           THEN call.ret = InternalError /\ state = "NotActive"
           ELSE call.ret = Ok /\ state = "Active"
    /\ nativeHist[2] = "start_failed" => state = "NotActive"
    /\ (StartReturned /\ nativeHist[2] = "start_failed") => call.ret.tag # "InvalidState"

\* C9 witness: after a start that failed in ProfilerStart, a start whose
\* ProfilerStart returned a negative status has succeeded.
C9_Witness ==
    /\ nativeHist = <<"start_failed", "start_ok">>
    /\ call.op = "start"
    /\ call.res = <<-1>>
    /\ call.ret = Ok
    /\ state = "Active"

\* A step in which start runs its checks on filename f from NotActive.
ChecksFromNotActive(f) ==
    /\ state = "NotActive"
    /\ call' # call
    /\ call'.op = "start"
    /\ call'.res = <<>>
    /\ call'.fname = f

\* C10: start from NotActive, each case being the first check to fail: a
\* filename with a null byte returns Nul (Encoding); a filename that encodes
\* and is valid UTF-8 returns Io not-found when the path names nothing, Io
\* not-found when it names something that is no regular file, and Io
\* permission-denied when it names a read-only regular file; the state stays
\* NotActive in each case.
C10_Classification ==
    [][ \A f \in Fnames : ChecksFromNotActive(f) =>
          /\ HasNul(f) => (call'.ret = Nul /\ state' = "NotActive")
          /\ (~HasNul(f) /\ IsUtf8(f) /\ Lookup(fs, f) = "missing") =>
                 (call'.ret = Io("NotFound") /\ state' = "NotActive")
          /\ (~HasNul(f) /\ IsUtf8(f) /\ Lookup(fs, f) \in {"dir", "special"}) =>
                 (call'.ret = Io("NotFound") /\ state' = "NotActive")
          /\ (~HasNul(f) /\ IsUtf8(f) /\ Lookup(fs, f) = "file_ro") =>
                 (call'.ret = Io("PermissionDenied") /\ state' = "NotActive")
      ]_vars

\* C10 witness: start from NotActive met a directory and returned Io
\* not-found.
C10_Witness ==
    /\ call.op = "start"
    /\ call.pre = "NotActive"
    /\ Lookup(fs, call.fname) = "dir"
    /\ call.found = "dir"
    /\ call.ret = Io("NotFound")
    /\ state = "NotActive"

\* C11: a stop that finds the state Active invokes ProfilerStop exactly once,
\* leaves the state NotActive and the native session ended, and returns
\* success, never an error.
C11_StopInfallible ==
    (call.op = "stop" /\ call.pre = "Active") =>
        /\ call.ret = Ok
        /\ call.trace = <<"ProfilerStop">>
        /\ nativeHist = <<"start_ok", "stop">>
        /\ state = "NotActive"
        /\ ~native

\* C11 witness: a stop called while Active has returned success, by the
\* caller who had started the session.
C11_Witness ==
    /\ call.op = "stop"
    /\ call.pre = "Active"
    /\ call.ret = Ok
    /\ ended = [started |-> {call.caller}, stopper |-> call.caller]

\* C12: the state is one of NotActive and Active; it is NotActive as long as
\* no call has been made, and as long as no ProfilerStart has reported
\* success.
C12_TwoStates ==
    /\ state \in States
    /\ call = NoCall => state = "NotActive"
    /\ (nativeHist[1] = "none" /\ nativeHist[2] # "start_ok") => state = "NotActive"

\* C12 witness: state(), the first call made on the singleton, returned
\* NotActive.
C12_Witness ==
    /\ call.op = "state"
    /\ call.ret = StateValue("NotActive")
    /\ nativeHist = <<"none", "none">>
    /\ state = "NotActive"

C14_StateIsPure ==
    [][ (call' # call /\ call'.op = "state") =>
          /\ call'.ret = StateValue(state)
          /\ state' = state
          /\ native' = native
          /\ nativeHist' = nativeHist
          /\ fs' = fs
          /\ call'.trace = <<>>
          /\ call'.found = "none"
          /\ call'.res = <<>>
      ]_vars

\* C14 witness: state() was called during a session and returned Active.
C14_Witness ==
    /\ call.op = "state"
    /\ call.ret = StateValue("Active")
    /\ state = "Active"
    /\ native

\* text holds sub as a substring
Contains(text, sub) ==
    \E i \in 1..(Len(text) - Len(sub) + 1) : SubSeq(text, i, i + Len(sub) - 1) = sub

\* The names of the two states, as the claim spells them.
StateName == [Active |-> "Active", NotActive |-> "NotActive"]

\* C15: the display text of every InvalidState error returned holds the name
\* of the state the error carries and differs from the text of InvalidState
\* with the other state; and the text for Active does not hold "NotActive".
C15_DisplayDistinct ==
    /\ call.ret.tag = "InvalidState" =>
           /\ Contains(DisplayError(call.ret), StateName[call.ret.arg])
           /\ \A s \in States \ {call.ret.arg} :
                  DisplayError(InvalidState(s)) # DisplayError(call.ret)
    /\ call.ret = InvalidState("Active") =>
           ~Contains(DisplayError(call.ret), StateName["NotActive"])

\* C15 witness: a stop has returned InvalidState(NotActive), whose text ends
\* with the state's name.
C15_Witness ==
    /\ call.op = "stop"
    /\ call.ret = InvalidState("NotActive")
    /\ DisplayError(call.ret) = "Operation is invalid for profiler state: NotActive"

\* Check k of the claim's list is violated by a start with filename f made in
\* state st over file system filesys.
CheckViolated(k, st, f, filesys) ==
    CASE k = 1 -> st # "NotActive"
      [] k = 2 -> HasNul(f)
      [] k = 3 -> ~IsUtf8(f)
      [] k = 4 -> Lookup(filesys, f) \in {"missing", "noaccess"}
      [] k = 5 -> Lookup(filesys, f) \notin {"file_ro", "file_rw"}
      [] k = 6 -> Lookup(filesys, f) = "file_ro"

\* The lowest-numbered violated check, 7 (the native call) when none is.
FirstViolated(st, f, filesys) ==
    LET bad == {k \in 1..6 : CheckViolated(k, st, f, filesys)}
    IN  IF bad = {} THEN 7 ELSE CHOOSE k \in bad : \A j \in bad : k <= j

\* ret is what the claim's list gives for a start stopped by check k.
AnswersCheck(k, st, ret) ==
    CASE k = 1 -> ret = InvalidState(st)
      [] k = 2 -> ret = Nul
      [] k = 3 -> ret = Utf8
      [] k = 4 -> ret.tag = "Io"
      [] k = 5 -> ret = Io("NotFound")
      [] k = 6 -> ret = Io("PermissionDenied")
      [] k = 7 -> ret = Proceed

NativeStartStep == \E c \in Callers : pc[c] = "native" /\ pc'[c] = "held"

\* C17 as stated: whenever ProfilerStart is invoked no native session is
\* active and the path passed names, at that moment, a regular file that is
\* not read-only.
C17_Original ==
    [][ NativeStartStep => (~native /\ Lookup(fs, call.fname) = "file_rw") ]_vars

\* C17 amended: whenever ProfilerStart is invoked no native session is active
\* and the path passed named a regular file that is not read-only when the
\* same start call looked it up, after it had found the state NotActive.
C17_ValidatedBefore ==
    [][ NativeStartStep =>
          /\ ~native
          /\ starters = {}
          /\ state = "NotActive"
          /\ call.op = "start"
          /\ call.pre = "NotActive"
          /\ PassedChecks
      ]_vars

\* C17 witness: ProfilerStart was invoked with a path that start had found to
\* name a writable regular file, and that names nothing now.
C17_Witness ==
    /\ call.op = "start"
    /\ call.trace = FullTrace
    /\ call.found = "file_rw"
    /\ Lookup(fs, call.fname) = "missing"
    /\ native

\* C18: of the callers that invoke stop on an active session with no start
\* in between, exactly one succeeds: ProfilerStop is never invoked twice with
\* no successful ProfilerStart in between, a stop that succeeds found the
\* state Active and is the one that ended the session, and as long as no
\* start has succeeded since, a stop by any other caller returns
\* InvalidState(NotActive) without a native call; at most one caller is
\* inside the lock.
C18_OneStopWins ==
    /\ nativeHist # <<"stop", "stop">>
    /\ (call.op = "stop" /\ call.ret = Ok) =>
           /\ call.pre = "Active"
           /\ state = "NotActive"
           /\ ended.stopper = call.caller
           /\ nativeHist = <<"start_ok", "stop">>
    /\ (call.op = "stop" /\ call.pre = "Active") => call.ret = Ok
    /\ (call.op = "stop" /\ ended # NoneEnded /\ call.caller # ended.stopper) =>
           /\ call.ret = InvalidState("NotActive")
           /\ call.trace = <<>>
           /\ state = "NotActive"
    /\ \A c, d \in Callers : (pc[c] \in {"held", "native"} /\ pc[d] \in {"held", "native"}) => c = d

\* C18 witness: one caller's stop has ended the session and another caller,
\* holding the lock the first now waits for, has had its stop rejected, no
\* native start having been made in between.
C18_Witness ==
    /\ call.op = "stop"
    /\ call.ret = InvalidState("NotActive")
    /\ nativeHist = <<"start_ok", "stop">>
    /\ ended.stopper \in Callers \ {call.caller}
    /\ pc[call.caller] = "held"
    /\ pc[ended.stopper] = "waiting"

\* C19: whenever the lock is free the state is Active exactly when a native
\* session is active, that is when the last native invocation is a
\* ProfilerStart that reported success; such a session has exactly one
\* caller that started it, so at most one is active.
C19_InSync ==
    /\ lock = 0 => ((state = "Active") <=> native)
    /\ lock = 0 => (native <=> nativeHist[2] = "start_ok")
    /\ lock = 0 => ((state = "Active") <=> (Cardinality(starters) = 1))
    /\ Cardinality(starters) <= 1

\* C19 witness: a session is active, in the wrapper and in the native
\* facility, while nobody holds or wants the lock.
C19_Witness ==
    /\ lock = 0
    /\ \A c \in Callers : pc[c] = "idle"
    /\ state = "Active"
    /\ native
    /\ nativeHist[2] = "start_ok"

\* C20: a step in which stop is called while the state is Active returns
\* success and ends the session whoever the caller is, the caller that started
\* it or another; and once another caller has ended a session, a stop by the
\* caller that started it returns InvalidState(NotActive) as long as no start
\* has succeeded since.
C20_NoOwner ==
    /\ [][ (call' # call /\ call'.op = "stop" /\ state = "Active") =>
             /\ call'.ret = Ok
             /\ state' = "NotActive"
             /\ ended' = [started |-> starters, stopper |-> call'.caller]
         ]_vars
    /\ []( (/\ call.op = "stop"
            /\ call.caller \in ended.started
            /\ call.caller # ended.stopper) =>
               call.ret = InvalidState("NotActive") )

\* C20 witness: a caller other than the one that started the session has
\* stopped it, and the starter's own stop has then been rejected.
C20_Witness ==
    /\ call.op = "stop"
    /\ call.ret = InvalidState("NotActive")
    /\ ended.started = {call.caller}
    /\ ended.stopper \in Callers \ {call.caller}

====
